---- MODULE Spec2Model ----
(***************************************************************************)
(* Model of get_recent_customers.py: a CSV file of customer rows is read   *)
(* (read_csv_file), validated row by row into CustomerData records         *)
(* (validate_customer_data), filtered to the records signed up within the  *)
(* last year (filter_recent_customers) and written to proc__<name>         *)
(* (save_filtered_data_to_csv), all orchestrated by main.                  *)
(*                                                                         *)
(* Texts are sequences of one-character strings, so that parsing and       *)
(* formatting are computed character by character.                         *)
(***************************************************************************)
EXTENDS Integers, Sequences, FiniteSets, TLC

VARIABLES
    pc,             \* position of main: idle, load, validate, filter, write, except, returned
    input_file,     \* the path main was called with
    output_file,    \* proc__<basename of input_file>
    csv,            \* content of the input file as the loader found it
    df,             \* the DataFrame read_csv_file returned (raw rows)
    validated_data, \* the list validate_customer_data returned (in a record)
    now,            \* the value datetime.now() returned inside the filter
    filtered_df,    \* the DataFrame filter_recent_customers returned
    fs,             \* the output files in the working directory
    log,            \* levels of the log entries this run emitted, in order
    stages,         \* the stages this run entered, in order
    before,         \* fs as it was when this run of main started
    rerun,          \* this run repeats the previous one: same path, file and clock
    first,          \* for a rerun: outcome and output file of the run it repeats
    row,            \* one line of cell texts, checked on its own
    result          \* what loading and validating that one line gave

vars == <<pc, input_file, output_file, csv, df, validated_data, now, filtered_df,
          fs, log, stages, before, rerun, first, row, result>>

pipeVars == <<pc, input_file, output_file, csv, df, validated_data, now,
              filtered_df, fs, log, stages, before, rerun, first>>

\* a variable or a file that holds nothing (yet)
Unset == [kind |-> "unset"]

NoFile == [kind |-> "nofile"]

\* raised by datetime.strptime and by converters inside pydantic
ValueError == [kind |-> "ValueError"]

\* raised by CustomerData(**item)
ValidationError == [kind |-> "ValidationError"]

-----------------------------------------------------------------------------
(* Characters and numbers *)

DigitChars == <<"0", "1", "2", "3", "4", "5", "6", "7", "8", "9">>

Digit == {DigitChars[i] : i \in 1..Len(DigitChars)}

NonZero == Digit \ {"0"}

DigitVal(c) == (CHOOSE i \in 1..Len(DigitChars) : DigitChars[i] = c) - 1

At(s, i) == IF i \in 1..Len(s) THEN s[i] ELSE ""

\* the member of a one-member set; Only({e(x) : x \in {v}}) is e(v) with v
\* evaluated once
Only(S) == CHOOSE x \in S : TRUE

\* int(text) for a text of digits, leading blanks skipped: its first n characters
RECURSIVE ToIntUpTo(_, _)
ToIntUpTo(s, n) ==
    IF n = 0 THEN 0
    ELSE Only({IF s[k] = " " THEN ToIntUpTo(s, k - 1)
               ELSE ToIntUpTo(s, k - 1) * Len(DigitChars) + DigitVal(s[k]) :
                  k \in {n}})

ToInt(s) == Only({ToIntUpTo(text, Len(text)) : text \in {s}})

\* str(n) for n >= 0
RECURSIVE IntToText(_)
IntToText(n) ==
    IF n < Len(DigitChars) THEN <<DigitChars[n + 1]>>
    ELSE IntToText(n \div Len(DigitChars)) \o <<DigitChars[(n % Len(DigitChars)) + 1]>>

\* zero-padded to width w, as %Y / %m / %d format a number
RECURSIVE Pad(_, _)
Pad(s, w) == IF Len(s) >= w THEN s ELSE Pad(<<"0">> \o s, w)

-----------------------------------------------------------------------------
(* Calendar *)

IsLeap(y) == (y % 4 = 0) /\ ((y % 100 # 0) \/ (y % 400 = 0))

DaysInMonth(y, m) ==
    IF m = 2 THEN (IF IsLeap(y) THEN 29 ELSE 28)
    ELSE IF m \in {4, 6, 9, 11} THEN 30 ELSE 31

\* a datetime: calendar day and time of day (t, in hours after midnight)
DateTime(y, m, d, t) == [year |-> y, month |-> m, day |-> d, hour |-> t]

\* a >= b on naive datetimes
DtGE(a, b) ==
    \/ a.year > b.year
    \/ a.year = b.year /\ a.month > b.month
    \/ a.year = b.year /\ a.month = b.month /\ a.day > b.day
    \/ a.year = b.year /\ a.month = b.month /\ a.day = b.day /\ a.hour >= b.hour

Min(a, b) == IF a <= b THEN a ELSE b

\* dt - pd.DateOffset(years=1): the year component minus one, the day clipped
\* to the length of the month, the time of day kept
MinusOneYear(dt) ==
    DateTime(dt.year - 1, dt.month,
             Min(dt.day, DaysInMonth(dt.year - 1, dt.month)), dt.hour)

-----------------------------------------------------------------------------
(* datetime.strptime(value, '%Y-%m-%d') *)

\* The regular expression the format compiles to, as a sequence of groups,
\* each a sequence of alternatives tried in order, each a sequence of
\* character classes:
\*   (\d\d\d\d)-(1[0-2]|0[1-9]|[1-9])-(3[0-1]|[1-2]\d|0[1-9]|[1-9]| [1-9])
YearAlts == << <<Digit, Digit, Digit, Digit>> >>

DashAlts == << <<{"-"}>> >>

MonthAlts == << <<{"1"}, {"0", "1", "2"}>>, <<{"0"}, NonZero>>, <<NonZero>> >>

\* DayAlts of a format that insists on two digits
DayAltsPadded == << <<{"3"}, {"0", "1"}>>, <<{"1", "2"}, Digit>>, <<{"0"}, NonZero>> >>

DayAlts == << <<{"3"}, {"0", "1"}>>, <<{"1", "2"}, Digit>>, <<{"0"}, NonZero>>,
              <<NonZero>>, <<{" "}, NonZero>> >>

FormatRegex == <<YearAlts, DashAlts, MonthAlts, DashAlts, DayAlts>>

MatchAlt(s, i, alt) == \A k \in 1..Len(alt) : At(s, i + k - 1) \in alt[k]

\* re.match from position i with group g, alternative a: the lengths of the
\* groups g.. of the first match in priority order (backtracking), or NoMatch
NoMatch == [ok |-> FALSE]

Matched(lens) == [ok |-> TRUE, lens |-> lens]

RECURSIVE RegexMatch(_, _, _, _)
RegexMatch(s, i, g, a) ==
    IF g > Len(FormatRegex) THEN Matched(<<>>)
    ELSE IF a > Len(FormatRegex[g]) THEN NoMatch
    ELSE Only({Only({IF rest.ok THEN Matched(<<Len(alt)>> \o rest.lens)
                     ELSE RegexMatch(s, at, group, n + 1) :
                        rest \in {IF MatchAlt(s, at, alt)
                                  THEN RegexMatch(s, at + Len(alt), group + 1, 1)
                                  ELSE NoMatch}}) :
                 at \in {i}, group \in {g}, n \in {a}, alt \in {FormatRegex[g][a]}})

\* strptime: no match, or unconverted data after the match, or a day the
\* calendar does not have (year 0 included), raise ValueError
RECURSIVE SumSeq(_)
SumSeq(q) == IF q = <<>> THEN 0 ELSE q[1] + SumSeq(Tail(q))

\* the text of group g of a match with these group lengths
Group(s, lens, g) ==
    SubSeq(s, SumSeq(SubSeq(lens, 1, g - 1)) + 1, SumSeq(SubSeq(lens, 1, g)))

StrptimeText(text) ==
    Only({IF ~match.ok THEN ValueError
          ELSE IF SumSeq(match.lens) # Len(text) THEN ValueError
          ELSE Only({IF y < 1 \/ d > DaysInMonth(y, m) THEN ValueError
                     ELSE DateTime(y, m, d, 0) :
                        y \in {ToInt(Group(text, match.lens, 1))},
                        m \in {ToInt(Group(text, match.lens, 3))},
                        d \in {ToInt(Group(text, match.lens, 5))}}) :
             match \in {RegexMatch(text, 1, 1, 1)}})

Strptime(s) == Only({StrptimeText(text) : text \in {s}})

\* strftime('%Y-%m-%d'), as to_csv writes a column of midnight datetimes
FormatDate(dt) ==
    Pad(IntToText(dt.year), 4) \o <<"-">> \o Pad(IntToText(dt.month), 2)
        \o <<"-">> \o Pad(IntToText(dt.day), 2)

-----------------------------------------------------------------------------
(* pd.read_csv *)

Fields == <<"customer_id", "name", "signup_date", "country">>

FieldSet == {Fields[i] : i \in 1..Len(Fields)}

StrVal(s) == [kind |-> "str", v |-> s]

IntVal(n) == [kind |-> "int", v |-> n]

FloatVal(n) == [kind |-> "float", v |-> n]

NaN == [kind |-> "nan"]

\* the cell texts read_csv takes for a missing value (keep_default_na); of
\* its default list only the empty cell occurs in the texts used here
IsNA(cell) == cell = <<>>

IsIntText(cell) == cell # <<>> /\ \A i \in 1..Len(cell) : cell[i] \in Digit

\* the dtype read_csv infers for a column from all its cells
ColumnDtype(lines, f) ==
    IF \A i \in 1..Len(lines) : IsIntText(lines[i][f]) THEN "int64"
    ELSE IF \A i \in 1..Len(lines) : IsIntText(lines[i][f]) \/ IsNA(lines[i][f])
         THEN "float64"
         ELSE "object"

\* the value df.to_dict(orient='records') holds for a cell
ReadCell(lines, i, f) ==
    LET cell == lines[i][f]
    IN  IF IsNA(cell) THEN NaN
        ELSE IF ColumnDtype(lines, f) = "int64" THEN IntVal(ToInt(cell))
        ELSE IF ColumnDtype(lines, f) = "float64" THEN FloatVal(ToInt(cell))
        ELSE StrVal(cell)

\* the DataFrame of a file with the four-column header line and these lines
ReadCsv(lines) ==
    [columns |-> Fields,
     rows    |-> [i \in 1..Len(lines) |-> [f \in FieldSet |-> ReadCell(lines, i, f)]]]

\* df.to_dict(orient='records')
ToDict(frame) == frame.rows

-----------------------------------------------------------------------------
(* CustomerData *)

\* customer_id: int (lax mode: an int, an integral float, a text of digits)
IsInt(raw) == raw.kind \in {"int", "float"} \/ (raw.kind = "str" /\ IsIntText(raw.v))

ValidateInt(raw) == IF raw.kind = "str" THEN ToInt(raw.v) ELSE raw.v

\* name, country: str (no coercion of numbers, and NaN is a float)
IsStr(raw) == raw.kind = "str"

\* the 'before' validator of signup_date
parse_signup_date(raw) == IF raw.kind = "str" THEN Strptime(raw.v) ELSE raw

\* signup_date: datetime, applied to what parse_signup_date returned: a
\* datetime is kept, NaN is refused, a number is taken as a Unix timestamp
ValidateDatetime(x) ==
    Only({IF v = ValueError \/ v = NaN THEN ValueError
          ELSE IF "kind" \in DOMAIN v THEN [timestamp |-> v.v]
          ELSE v :
             v \in {x}})

\* CustomerData(**item): every field is validated, one failure raises
CustomerData(item) ==
    Only({IF /\ IsInt(item.customer_id)
             /\ IsStr(item.name)
             /\ date # ValueError
             /\ IsStr(item.country)
          THEN [customer_id |-> ValidateInt(item.customer_id),
                name        |-> item.name.v,
                signup_date |-> date,
                country     |-> item.country.v]
          ELSE ValidationError :
             date \in {ValidateDatetime(parse_signup_date(item.signup_date))}})

\* ValidateRows that skips a failing row instead of raising
RECURSIVE ValidateRowsSkipping(_)
ValidateRowsSkipping(data) ==
    IF data = <<>> THEN [records |-> <<>>]
    ELSE Only({IF head = ValidationError THEN rest
               ELSE [records |-> <<head>> \o rest.records] :
                  head \in {CustomerData(data[1])},
                  rest \in {ValidateRowsSkipping(Tail(data))}})

\* [CustomerData(**item) for item in data]: the first failing row raises
RECURSIVE ValidateRows(_)
ValidateRows(data) ==
    IF data = <<>> THEN [records |-> <<>>]
    ELSE Only({IF head = ValidationError THEN ValidationError
               ELSE Only({IF rest = ValidationError THEN ValidationError
                          ELSE [records |-> <<head>> \o rest.records] :
                             rest \in {ValidateRows(Tail(data))}}) :
                  head \in {CustomerData(data[1])}})

-----------------------------------------------------------------------------
(* filter_recent_customers and to_csv *)

\* pd.DataFrame(list of dicts): the columns are the keys of the dicts, so a
\* frame built from an empty list has no columns
DataFrame(items) ==
    [columns |-> IF items = <<>> THEN <<>> ELSE Fields, rows |-> items]

\* Recent with the boundary left out (> for >=)
RecentStrictly(item, one_year_ago) == ~DtGE(one_year_ago, item.signup_date)

Recent(item, one_year_ago) == DtGE(item.signup_date, one_year_ago)

\* [item.dict() for item in validated_data if item.signup_date >= one_year_ago]
FilterRecent(items, t) ==
    LET one_year_ago == MinusOneYear(t)
    IN  SelectSeq(items, LAMBDA item : Recent(item, one_year_ago))

\* the text to_csv writes for one value of a column
CellText(item, f) ==
    IF f = "customer_id" THEN IntToText(item[f])
    ELSE IF f = "signup_date" THEN FormatDate(item[f])
    ELSE item[f]

\* df.to_csv(path, index=False): a header line of the column names, then one
\* line per row; the file is replaced
ToCsv(frame) ==
    [header |-> frame.columns,
     lines  |-> [i \in 1..Len(frame.rows) |->
                   [k \in 1..Len(frame.columns) |->
                      CellText(frame.rows[i], frame.columns[k])]]]

-----------------------------------------------------------------------------
(* Inputs *)

MaxRows == 3

Line(id, name, date, country) ==
    [customer_id |-> id, name |-> name, signup_date |-> date, country |-> country]

D20250115 == <<"2", "0", "2", "5", "-", "0", "1", "-", "1", "5">>

D20240310 == <<"2", "0", "2", "4", "-", "0", "3", "-", "1", "0">>

\* the lines an input file is made of: two well-formed customers and one
\* line whose customer_id is not a number
LineAl == Line(<<"1">>, <<"A", "l">>, D20250115, <<"U", "S">>)

LineBo == Line(<<"2">>, <<"B", "o">>, D20240310, <<"F", "R">>)

LineBad == Line(<<"x">>, <<"A", "l">>, D20250115, <<"U", "S">>)

Lines == {LineAl, LineBo, LineBad}

\* an input file: the header line of the four column names, then these lines
Files == {[lines |-> l] : l \in UNION {[1..n -> Lines] : n \in 0..MaxRows}}

\* the clock readings: midnight and noon of one day, a year to the day after
\* LineBo signed up, and a day of the following year
Nows == {DateTime(2025, 3, 10, 0), DateTime(2025, 3, 10, 12),
         DateTime(2026, 2, 1, 9)}

InputPaths == {<<"data", "customers.csv">>, <<"customers.csv">>}

\* os.path.basename
Basename(path) == path[Len(path)]

OutputFile(path) == <<"proc__", Basename(path)>>

OutputNames == {OutputFile(p) : p \in InputPaths}

\* what an output path may hold before the first run
OldFile == [header |-> Fields,
            lines |-> << <<<<"9">>, <<"Z">>, D20240310, <<"U", "S">>>> >>]

-----------------------------------------------------------------------------
(* main *)

\* before main is called: nothing read yet, the working directory as found
InitMain ==
    /\ pc = "idle"
    /\ input_file = <<>>
    /\ output_file = <<>>
    /\ csv = Unset
    /\ df = Unset
    /\ validated_data = Unset
    /\ now = Unset
    /\ filtered_df = Unset
    /\ fs \in [OutputNames -> {NoFile, OldFile}]
    /\ log = <<>>
    /\ stages = <<>>
    /\ before = fs
    /\ rerun = FALSE
    /\ first = Unset

Init ==
    /\ InitMain
    /\ row = Unset
    /\ result = Unset

\* main(input_file) is called: line 105 derives the output path
Start(path) ==
    /\ pc \in {"idle", "returned"}
    /\ pc' = "load"
    /\ input_file' = path
    /\ output_file' = OutputFile(path)
    /\ csv' = Unset
    /\ df' = Unset
    /\ validated_data' = Unset
    /\ now' = Unset
    /\ filtered_df' = Unset
    /\ log' = <<>>
    /\ stages' = <<>>
    /\ before' = fs
    /\ rerun' = FALSE
    /\ first' = Unset
    /\ UNCHANGED <<fs, row, result>>

\* after a run that succeeded, main is called again with the same path while
\* the input file and the clock are what that run found; the output path
\* holds by then what that run left there, or something else
Rerun ==
    /\ pc = "returned"
    /\ \A i \in 1..Len(log) : log[i] = "INFO"
    /\ \E held \in {fs[output_file], OldFile} :
         /\ fs' = [fs EXCEPT ![output_file] = held]
         /\ before' = fs'
    /\ pc' = "load"
    /\ df' = Unset
    /\ validated_data' = Unset
    /\ filtered_df' = Unset
    /\ log' = <<>>
    /\ stages' = <<>>
    /\ rerun' = TRUE
    /\ first' = [log |-> log, file |-> fs[output_file]]
    /\ UNCHANGED <<input_file, output_file, csv, now, row, result>>

\* Load that goes on with an empty DataFrame when the file cannot be read
LoadSwallowing ==
    /\ pc = "load"
    /\ stages' = Append(stages, "load")
    /\ \E content \in Files \cup {NoFile} :
         /\ rerun => content = csv
         /\ csv' = content
         /\ df' = IF content = NoFile THEN ReadCsv(<<>>) ELSE ReadCsv(content.lines)
         /\ log' = Append(log, IF content = NoFile THEN "ERROR" ELSE "INFO")
         /\ pc' = "validate"
    /\ UNCHANGED <<input_file, output_file, validated_data, now, filtered_df, fs,
                   before, rerun, first, row, result>>

\* read_csv_file: the file is missing or unreadable (logged, re-raised), or
\* it is read into a DataFrame
Load ==
    /\ pc = "load"
    /\ stages' = Append(stages, "load")
    /\ \E content \in Files \cup {NoFile} :
         /\ rerun => content = csv
         /\ csv' = content
         /\ IF content = NoFile
               THEN /\ log' = Append(log, "ERROR")
                    /\ pc' = "except"
                    /\ df' = df
               ELSE /\ df' = ReadCsv(content.lines)
                    /\ log' = Append(log, "INFO")
                    /\ pc' = "validate"
    /\ UNCHANGED <<input_file, output_file, validated_data, now, filtered_df, fs,
                   before, rerun, first, row, result>>

\* validate_customer_data: every row becomes a CustomerData, or the first
\* failing row raises ValidationError (logged, re-raised)
Validate ==
    /\ pc = "validate"
    /\ stages' = Append(stages, "validate")
    /\ \E validated \in {ValidateRows(ToDict(df))} :
         IF validated = ValidationError
            THEN /\ log' = Append(log, "ERROR")
                 /\ pc' = "except"
                 /\ validated_data' = validated_data
            ELSE /\ validated_data' = validated
                 /\ log' = Append(log, "INFO")
                 /\ pc' = "filter"
    /\ UNCHANGED <<input_file, output_file, csv, df, now, filtered_df, fs,
                   before, rerun, first, row, result>>

\* filter_recent_customers: datetime.now() is read, the recent records are
\* kept and made a DataFrame
Filter ==
    /\ pc = "filter"
    /\ stages' = Append(stages, "filter")
    /\ \E t \in Nows :
         /\ rerun => t = now
         /\ now' = t
         /\ filtered_df' = DataFrame(FilterRecent(validated_data.records, t))
    /\ log' = Append(log, "INFO")
    /\ pc' = "write"
    /\ UNCHANGED <<input_file, output_file, csv, df, validated_data, fs,
                   before, rerun, first, row, result>>

\* Write that opens the file for appending: the lines go after those in it
WriteAppending ==
    /\ pc = "write"
    /\ stages' = Append(stages, "write")
    /\ \E writable \in BOOLEAN :
         IF writable
            THEN /\ fs' = [fs EXCEPT ![output_file] =
                            IF @ = NoFile THEN ToCsv(filtered_df)
                            ELSE [@ EXCEPT !.lines = @ \o ToCsv(filtered_df).lines]]
                 /\ log' = Append(log, "INFO")
                 /\ pc' = "returned"
            ELSE /\ fs' = fs
                 /\ log' = Append(log, "ERROR")
                 /\ pc' = "except"
    /\ UNCHANGED <<input_file, output_file, csv, df, validated_data, now,
                   filtered_df, before, rerun, first, row, result>>

\* save_filtered_data_to_csv: the file is written, or the destination cannot
\* be opened for writing (logged, re-raised)
Write ==
    /\ pc = "write"
    /\ stages' = Append(stages, "write")
    /\ \E writable \in BOOLEAN :
         IF writable
            THEN /\ fs' = [fs EXCEPT ![output_file] = ToCsv(filtered_df)]
                 /\ log' = Append(log, "INFO")
                 /\ pc' = "returned"
            ELSE /\ fs' = fs
                 /\ log' = Append(log, "ERROR")
                 /\ pc' = "except"
    /\ UNCHANGED <<input_file, output_file, csv, df, validated_data, now,
                   filtered_df, before, rerun, first, row, result>>

\* Except that logs at the level of the stages instead of critical
ExceptAtErrorLevel ==
    /\ pc = "except"
    /\ log' = Append(log, "ERROR")
    /\ pc' = "returned"
    /\ UNCHANGED <<input_file, output_file, csv, df, validated_data, now,
                   filtered_df, fs, stages, before, rerun, first, row, result>>

\* Except that removes the output file of a failed run
ExceptRemoving ==
    /\ pc = "except"
    /\ log' = Append(log, "CRITICAL")
    /\ pc' = "returned"
    /\ fs' = [fs EXCEPT ![output_file] = NoFile]
    /\ UNCHANGED <<input_file, output_file, csv, df, validated_data, now,
                   filtered_df, stages, before, rerun, first, row, result>>

\* the except clause of main: one critical entry, then main returns
Except ==
    /\ pc = "except"
    /\ log' = Append(log, "CRITICAL")
    /\ pc' = "returned"
    /\ UNCHANGED <<input_file, output_file, csv, df, validated_data, now,
                   filtered_df, fs, stages, before, rerun, first, row, result>>

Next ==
    \/ \E path \in InputPaths : Start(path)
    \/ Rerun
    \/ Load
    \/ Validate
    \/ Filter
    \/ Write
    \/ Except

Spec == Init /\ [][Next]_vars

\* a run of main that has started keeps going: it is sequential code that
\* waits for nothing
FairSpec == Spec /\ WF_vars(Load \/ Validate \/ Filter \/ Write \/ Except)

-----------------------------------------------------------------------------
(* One line on its own: the loader's and the validator's treatment of the *)
(* cell texts of a single line                                             *)

YearTexts == {<<"2", "0", "2", "4">>, <<"2", "0", "2", "3">>,
              <<"0", "0", "0", "0">>, <<"0", "2", "4">>}

SepTexts == {<<"-">>, <<"/">>}

MonthTexts == {<<"0", "1">>, <<"1">>, <<"0", "2">>, <<"2">>, <<"1", "2">>,
               <<"1", "3">>, <<"0", "0">>, <<" ", "1">>}

DayTexts == {<<"1", "5">>, <<"5">>, <<"0", "5">>, <<" ", "5">>, <<"2", "9">>,
             <<"3", "0">>, <<"3", "1">>, <<"3", "2">>, <<"0", "0">>, <<"1", " ">>}

DateTexts ==
    {y \o s1 \o m \o s2 \o d :
        y \in YearTexts, s1 \in SepTexts, m \in MonthTexts, s2 \in SepTexts,
        d \in DayTexts}
    \cup {<<>>, <<"2", "0", "2", "4", "0", "1", "1", "5">>}

RowTexts ==
    {Line(id, name, date, country) :
        id \in {<<"1">>, <<"x">>, <<>>}, name \in {<<"A", "l">>, <<>>},
        date \in DateTexts, country \in {<<"U", "S">>, <<>>}}

InitRow ==
    /\ InitMain
    /\ row \in RowTexts
    /\ result = Unset

\* the line is the only line of a CSV file: read_csv_file, then CustomerData
ValidateFromFile ==
    /\ row # Unset
    /\ result = Unset
    /\ LET raw == ToDict(ReadCsv(<<row>>))[1]
       IN  result' = [via |-> "file", raw |-> raw, record |-> CustomerData(raw)]
    /\ UNCHANGED <<pipeVars, row>>

\* the line reaches the validator as a row of texts: CustomerData
ValidateTexts ==
    /\ row # Unset
    /\ result = Unset
    /\ LET raw == [f \in FieldSet |-> StrVal(row[f])]
       IN  result' = [via |-> "texts", raw |-> raw, record |-> CustomerData(raw)]
    /\ UNCHANGED <<pipeVars, row>>

NextRow == ValidateFromFile \/ ValidateTexts

SpecRow == InitRow /\ [][NextRow]_vars

-----------------------------------------------------------------------------
(* Properties of a run of main *)

Entered(stage) == \E i \in 1..Len(stages) : stages[i] = stage

Logged(level) == {i \in 1..Len(log) : log[i] = level}

Returned == pc = "returned"

Failed == Returned /\ Logged("ERROR") # {}

Succeeded == Returned /\ Logged("ERROR") = {}

StageOrder == <<"load", "validate", "filter", "write">>

Records == validated_data.records

\* the positions of the validated records signed up at or after now - 1 year
KeptIndexes == {i \in 1..Len(Records) : DtGE(Records[i].signup_date, MinusOneYear(now))}

\* the j-th smallest member of a set of numbers
Nth(S, j) == CHOOSE i \in S : Cardinality({k \in S : k < i}) = j - 1

\* C1: the filter returns exactly the validated records whose signup_date is
\* >= now - 1 year, each once, in input order, with their fields unchanged
C1_FilterExact ==
    filtered_df # Unset =>
        /\ Len(filtered_df.rows) = Cardinality(KeptIndexes)
        /\ \A j \in 1..Len(filtered_df.rows) :
              filtered_df.rows[j] = Records[Nth(KeptIndexes, j)]

\* a run kept some records and dropped an earlier one
C1_Witness ==
    /\ filtered_df # Unset
    /\ Len(filtered_df.rows) >= 1
    /\ \E i \in KeptIndexes : \E k \in 1..(i - 1) : k \notin KeptIndexes

\* the validated records signed up on the calendar day one year before today
SameDayLastYear ==
    {i \in 1..Len(Records) :
        /\ Records[i].signup_date.year = now.year - 1
        /\ Records[i].signup_date.month = now.month
        /\ Records[i].signup_date.day = now.day}

\* C2: whatever the time of day of the run, a record signed up on the same
\* calendar day one year before the current date is in the filter's output
C2_SameDayIncluded ==
    filtered_df # Unset =>
        \A i \in SameDayLastYear :
            \E j \in 1..Len(filtered_df.rows) : filtered_df.rows[j] = Records[i]

\* the input file has a line whose customer_id is not a number
BadLines ==
    IF csv \in {Unset, NoFile} THEN {}
    ELSE {i \in 1..Len(csv.lines) : ~IsIntText(csv.lines[i].customer_id)}

\* C3: when any line of the batch fails a field rule, validation returns no
\* records, the filter and the writer are never entered, the run fails and
\* the output file is not written
C3_AllOrNothing ==
    (BadLines # {} /\ Entered("validate")) =>
        /\ validated_data = Unset
        /\ ~Entered("filter")
        /\ ~Entered("write")
        /\ fs = before
        /\ Returned => Failed /\ log[Len(log)] = "CRITICAL"

\* a run on three lines, the middle one bad, has returned
C3_Witness ==
    /\ Returned
    /\ BadLines = {2}
    /\ Len(csv.lines) = 3

\* C4: when the batch validates and no record is recent (or there is no
\* row), the output file is created and holds the header line of the four
\* field names and no data line
C4_EmptyResultHasHeader ==
    (Succeeded /\ filtered_df.rows = <<>>) =>
        /\ fs[output_file] # NoFile
        /\ fs[output_file].header = Fields
        /\ fs[output_file].lines = <<>>

IsPrefix(p, q) == Len(p) <= Len(q) /\ \A i \in 1..Len(p) : p[i] = q[i]

C6_ReturnedAsLogged ==
    Returned =>
        IF Logged("ERROR") # {}
        THEN /\ Cardinality(Logged("CRITICAL")) = 1
             /\ log[Len(log)] = "CRITICAL"
        ELSE /\ Logged("CRITICAL") = {}
             /\ stages = StageOrder
             /\ fs[output_file] = ToCsv(filtered_df)

FirstSucceeded == rerun /\ \A i \in 1..Len(first.log) : first.log[i] = "INFO"

\* C8: a run repeated on the same path, input file and clock reading writes
\* the output the first run wrote, whatever the output path held in between
C8_Idempotent ==
    (Succeeded /\ FirstSucceeded) => fs[output_file] = first.file

\* a repeated run wrote its lines over something else than the first output
C8_Witness ==
    /\ Succeeded
    /\ FirstSucceeded
    /\ Len(fs[output_file].lines) >= 1
    /\ before[output_file] # first.file

-----------------------------------------------------------------------------
(* Properties of the validation of one line *)

DigitsOnly(s) == \A i \in 1..Len(s) : s[i] \in Digit

\* exactly YYYY-MM-DD: ten characters, digits around two '-'
PaddedFormat(s) ==
    /\ Len(s) = 10
    /\ s[5] = "-"
    /\ s[8] = "-"
    /\ DigitsOnly(SubSeq(s, 1, 4) \o SubSeq(s, 6, 7) \o SubSeq(s, 9, 10))

\* Y-M-D with a four-digit year, a month of one or two digits, and a day of
\* one or two digits or of a blank and a digit
LooseParts(s) ==
    {p \in (1..Len(s)) \X (1..Len(s)) :
        /\ p[1] < p[2]
        /\ s[p[1]] = "-"
        /\ s[p[2]] = "-"
        /\ LET y == SubSeq(s, 1, p[1] - 1)
               m == SubSeq(s, p[1] + 1, p[2] - 1)
               d == SubSeq(s, p[2] + 1, Len(s))
           IN  /\ Len(y) = 4 /\ DigitsOnly(y)
               /\ Len(m) \in {1, 2} /\ DigitsOnly(m)
               /\ \/ Len(d) \in {1, 2} /\ DigitsOnly(d)
                  \/ Len(d) = 2 /\ d[1] = " " /\ d[2] \in NonZero}

\* the calendar day a text in that form denotes, when there is such a day
DayOf(s, p) ==
    DateTime(ToInt(SubSeq(s, 1, p[1] - 1)), ToInt(SubSeq(s, p[1] + 1, p[2] - 1)),
             ToInt(SubSeq(s, p[2] + 1, Len(s))), 0)

IsCalendarDay(dt) ==
    /\ dt.year >= 1
    /\ dt.month \in 1..12
    /\ dt.day \in 1..DaysInMonth(dt.year, dt.month)

\* the line was validated with a textual signup_date and its other fields valid
TextDateValidated ==
    /\ result # Unset
    /\ result.raw.signup_date.kind = "str"
    /\ IsInt(result.raw.customer_id)
    /\ IsStr(result.raw.name)
    /\ IsStr(result.raw.country)

Passed == result.record # ValidationError

Text20240115 == <<"2", "0", "2", "4", "-", "0", "1", "-", "1", "5">>

Text2024s01s15 == <<"2", "0", "2", "4", "/", "0", "1", "/", "1", "5">>

\* C7 as claimed: a textual signup_date passes validation exactly when it is
\* in the form YYYY-MM-DD and denotes a calendar day
C7_PassesIffPadded ==
    TextDateValidated =>
        (Passed <=>
            /\ PaddedFormat(row.signup_date)
            /\ IsCalendarDay(DayOf(row.signup_date, <<5, 8>>)))

\* C7 as amended: a textual signup_date passes validation exactly when it is
\* a four-digit year, '-', a month of one or two digits, '-', a day of one or
\* two digits (or a blank and a digit), and denotes a calendar day, and it is
\* then midnight of that day; 2024-01-15 passes, 2024/01/15 does not
C7_PassesIffLoose ==
    TextDateValidated =>
        /\ Passed <=>
              \E p \in LooseParts(row.signup_date) :
                  IsCalendarDay(DayOf(row.signup_date, p))
        /\ Passed =>
              \A p \in LooseParts(row.signup_date) :
                  result.record.signup_date = DayOf(row.signup_date, p)
        /\ row.signup_date = Text20240115 =>
              Passed /\ result.record.signup_date = DateTime(2024, 1, 15, 0)
        /\ row.signup_date = Text2024s01s15 => ~Passed

\* a text with a one-digit month and day passed validation
C7_Witness ==
    /\ TextDateValidated
    /\ Passed
    /\ Len(row.signup_date) = 8

\* C9: a line whose name or country is empty and whose other fields are
\* valid is accepted, and the record has the empty text there, also when the
\* line comes from a CSV file
C9_EmptyTextAccepted ==
    (/\ result # Unset
     /\ row.name = <<>> \/ row.country = <<>>
     /\ IsIntText(row.customer_id)
     /\ Strptime(row.signup_date) # ValueError) =>
        /\ result.record # ValidationError
        /\ result.record.name = row.name
        /\ result.record.country = row.country

====
